---- MODULE Spec2Model ----
(***************************************************************************)
(* FaceFilterer: the encoder (EncodeGenerator.py), the separator           *)
(* (separate_images.py) and the interactive front-end (gui_app.py).        *)
(*                                                                         *)
(* A face encoding is a vector of integers in units of 0.1; distances are  *)
(* compared squared, so that "distance <= 0.6" is "squared distance <= 36".*)
(* An image is a record: ok = FALSE is cv2.imread's None, and faces is the *)
(* sequence of encodings face_recognition.face_encodings returns for it.   *)
(***************************************************************************)
EXTENDS Integers, Sequences, FiniteSets, TLC

\* ------------------------------------------------------------------ bounds
MaxRef == 2
MaxFiles == 2
MaxFaces == 2

\* --------------------------------------------------------------- constants
\* tolerance=0.6 of compare_faces, in units of 0.1
tolerance == 6

valid_extensions == {".png", ".jpg", ".jpeg"}

\* ------------------------------------------------------------- the domains
RefEncodings == {<<6, 0>>, <<0, 6>>}
ProbeEncodings == {<<0, 0>>, <<3, 2>>, <<6, 0>>}
Labels == {"alice", "bob"}

None == [ok |-> FALSE, faces |-> <<>>]

SeqsUpTo(S, n) == UNION {[1..k -> S] : k \in 0..n}

Img(fs) == [ok |-> TRUE, faces |-> fs]

\* what cv2.imread and the face library can yield for a reference file
RefImages == {None} \cup {Img(fs) : fs \in SeqsUpTo(RefEncodings, 1)}
               \cup {Img(<<<<6, 0>>, <<0, 6>>>>)}

\* what they can yield for a candidate file
Images == {None} \cup {Img(fs) : fs \in SeqsUpTo(ProbeEncodings, MaxFaces)}

File(b, e) == [base |-> b, ext |-> e]

RefNames == {File("alice", ".jpg"), File("alice", ".png"),
             File("bob", ".jpg"), File("bob", ".JPG")}

ScanNames == {File("photo1", ".jpg"), File("photo2", ".PNG"), File("notes", ".txt")}

Injective(s) == \A i, j \in DOMAIN s : i # j => s[i] # s[j]

\* os.listdir: the names of a folder, each once, in the platform's order
Listings(names, n) == {s \in SeqsUpTo(names, n) : Injective(s)}

\* str.lower on an extension
Lower(e) ==
  CASE e = ".JPG" -> ".jpg"
    [] e = ".PNG" -> ".png"
    [] e = ".JPEG" -> ".jpeg"
    [] OTHER -> e

\* path.endswith(valid_extensions): case-sensitive
EndsWithValid(f) == f.ext \in valid_extensions

\* filename.lower().endswith(valid_extensions)
LowerEndsWithValid(f) == Lower(f.ext) \in valid_extensions

\* ------------------------------------------------------------- the state
VARIABLES
  script,           \* which of the three scripts this process runs
  pc,               \* its position
  refFolder,        \* encoder: the folder 'Images', a sequence of [name, img]
  imgList,          \* encoder: imgList
  studentIds,       \* encoder and separator: studentIds
  encodeListKnown,  \* encoder and separator: encodeListKnown
  EncodeFile,       \* the file EncodeFile.p
  target_person_id, \* separator: target_person_id
  listing,          \* separator: os.listdir(source_folder); scan: all_files
  idx,              \* the number of entries of listing the loop has taken
  filename,         \* the loop's filename
  image,            \* the loop's image
  face_encodings,   \* the loop's face_encodings
  face_encoding,    \* separator: the face compared last in this iteration
  face_distances,   \* separator: face_distances for that face
  matches,          \* separator: matches for that face
  match_index,      \* separator: match_index for that face (0: not computed)
  found_target,     \* separator: found_target
  copied,           \* separator: the file names in destination_folder
  source_folder,    \* gui: self.source_folder
  face_image_path,  \* gui: self.face_image_path
  matched_files,    \* gui: self.matched_files
  probe_encoding,   \* gui: the face_encoding process_images passes to the scan
  matched_filepaths, \* gui: find_matched_images' matched_filepaths
  progress_value,   \* gui: self.progress_bar['value'], rounded down
  trace,            \* gui: what the current scan has done so far, in order
  archive,          \* gui: the ZIP file written last
  message,          \* gui: the message box the last handler showed, if any
  event,            \* gui: the event handled last, with what the user gave
  earlier_files,    \* gui: self.matched_files as the last run found it
  all_files         \* gui: find_matched_images' all_files

encVars == <<refFolder, imgList>>
knownVars == <<studentIds, encodeListKnown>>
loopVars == <<filename, image, face_encodings>>
faceVars == <<face_encoding, face_distances, matches, match_index, found_target>>
sepVars == <<target_person_id, copied>>

selVars == <<source_folder, face_image_path>>
guiVars == <<selVars, matched_files, probe_encoding, matched_filepaths,
             progress_value, trace, archive, message, event, earlier_files,
             all_files>>
cliVars == <<encVars, knownVars, EncodeFile, faceVars, sepVars>>

vars == <<script, pc, encVars, knownVars, EncodeFile, listing, idx, loopVars,
          faceVars, sepVars, guiVars>>

NoName == File("", "")
NoEncoding == <<>>

\* ---------------------------------------------------------- the encoder
RefFolders ==
  {s \in SeqsUpTo([name : RefNames, img : RefImages], MaxRef) :
     \A i, j \in DOMAIN s : i # j => s[i].name # s[j].name}

\* lines 15-18: one imgList entry and one studentIds entry per valid file
RECURSIVE ReadImages(_)
ReadImages(pathList) ==
  IF pathList = <<>> THEN [imgs |-> <<>>, ids |-> <<>>]
  ELSE LET rest == ReadImages(Tail(pathList))
           path == Head(pathList)
       IN IF EndsWithValid(path.name)
            THEN [imgs |-> <<path.img>> \o rest.imgs,
                  ids |-> <<path.name.base>> \o rest.ids]
            ELSE rest

\* findEncodings: None is skipped; face_encodings(img)[0] raises IndexError
\* when no face is found
RECURSIVE findEncodings(_)
findEncodings(imagesList) ==
  IF imagesList = <<>> THEN [err |-> FALSE, list |-> <<>>]
  ELSE LET img == Head(imagesList)
           rest == findEncodings(Tail(imagesList))
       IN IF ~img.ok THEN rest
          ELSE IF img.faces = <<>> THEN [err |-> TRUE, list |-> <<>>]
          ELSE IF rest.err THEN rest
          ELSE [err |-> FALSE, list |-> <<img.faces[1]>> \o rest.list]

NoFile == [written |-> FALSE, encodings |-> <<>>, labels |-> <<>>]

\* lines 34-39: [encodeListKnown, studentIds] pickled into EncodeFile.p
Pickle(encodings, labels) ==
  [written |-> TRUE, encodings |-> encodings, labels |-> labels]

\* a whole run of the script over one reference folder
EncodeRun(folder) ==
  LET r == ReadImages(folder)
      e == findEncodings(r.imgs)
  IN IF e.err THEN NoFile ELSE Pickle(e.list, r.ids)

\* every EncodeFile.p an encoder run over a reference folder can leave
EncoderOutputs == {EncodeRun(f) : f \in RefFolders} \ {NoFile}

NoArchive == [written |-> FALSE, entries |-> <<>>]

\* an event of the front-end: the handler (op), the path the picker gave or
\* that was dropped (arg), the braces around a dropped path (open, close),
\* whether the face image could be opened (exists) and what cv2.imread and
\* the face detection gave for it (img)
NoEvent ==
  [op |-> "", arg |-> "", open |-> FALSE, close |-> FALSE, exists |-> FALSE,
   img |-> None]

GuiFresh ==
  /\ source_folder = "" /\ face_image_path = ""
  /\ matched_files = <<>> /\ probe_encoding = NoEncoding
  /\ matched_filepaths = <<>> /\ progress_value = 0 /\ trace = <<>>
  /\ archive = NoArchive /\ message = "" /\ event = NoEvent
  /\ earlier_files = <<>> /\ all_files = <<>>

Idle ==
  /\ listing = <<>> /\ idx = 0
  /\ filename = NoName /\ image = None /\ face_encodings = <<>>
  /\ face_encoding = NoEncoding /\ face_distances = <<>> /\ matches = <<>>
  /\ match_index = 0 /\ found_target = FALSE
  /\ target_person_id = "" /\ copied = {}

InitEnc ==
  /\ script = "EncodeGenerator"
  /\ pc = "read"
  /\ refFolder \in RefFolders
  /\ imgList = <<>> /\ studentIds = <<>> /\ encodeListKnown = <<>>
  /\ EncodeFile = NoFile
  /\ Idle
  /\ GuiFresh

EncRead ==
  /\ script = "EncodeGenerator" /\ pc = "read"
  /\ imgList' = ReadImages(refFolder).imgs
  /\ studentIds' = ReadImages(refFolder).ids
  /\ pc' = "encode"
  /\ UNCHANGED <<script, refFolder, encodeListKnown, EncodeFile, listing, idx,
                 loopVars, faceVars, sepVars, guiVars>>

EncFind ==
  /\ script = "EncodeGenerator" /\ pc = "encode"
  /\ LET e == findEncodings(imgList)
     IN IF e.err
          THEN pc' = "error" /\ UNCHANGED encodeListKnown
          ELSE pc' = "dump" /\ encodeListKnown' = e.list
  /\ UNCHANGED <<script, encVars, studentIds, EncodeFile, listing, idx,
                 loopVars, faceVars, sepVars, guiVars>>

EncDump ==
  /\ script = "EncodeGenerator" /\ pc = "dump"
  /\ EncodeFile' = Pickle(encodeListKnown, studentIds)
  /\ pc' = "done"
  /\ UNCHANGED <<script, encVars, knownVars, listing, idx, loopVars, faceVars,
                 sepVars, guiVars>>

NextEnc == EncRead \/ EncFind \/ EncDump

SpecEnc == InitEnc /\ [][NextEnc]_vars

\* ------------------------------------------------- reading a candidate
\* a scan that lets an unreadable file end it: without the None test,
\* cv2.cvtColor raises on None
ReadStatusAbort(img) == IF ~img.ok THEN "abort" ELSE "ok"

\* image = cv2.imread(filepath); if image is None: continue
\* "skip": the iteration ends here; "ok": it goes on; "abort": an exception
ReadStatus(img) == IF ~img.ok THEN "skip" ELSE "ok"

\* -------------------------------------------------------- the separator
\* squared Euclidean distance of two encodings
Dist2(a, b) ==
  (a[1] - b[1]) * (a[1] - b[1]) + (a[2] - b[2]) * (a[2] - b[2])

\* face_recognition.face_distance(known, probe): one distance per known
\* encoding, the empty array for an empty list
face_distance(known, probe) ==
  [i \in 1..Len(known) |-> Dist2(known[i], probe)]

\* compare_faces with a strict comparison
compare_facesStrict(known, probe) ==
  [i \in 1..Len(known) |-> face_distance(known, probe)[i] < tolerance * tolerance]

\* face_recognition.compare_faces(known, probe, tolerance=0.6):
\* list(face_distance(known, probe) <= tolerance)
compare_faces(known, probe) ==
  [i \in 1..Len(known) |-> face_distance(known, probe)[i] <= tolerance * tolerance]

\* an argmin that keeps the last index of the least value
RECURSIVE ArgMinFromLast(_, _, _)
ArgMinFromLast(ds, i, b) ==
  IF i > Len(ds) THEN b
  ELSE ArgMinFromLast(ds, i + 1, IF ds[i] <= ds[b] THEN i ELSE b)

\* np.argmin over ds[i..]: the first index of the least value, best so far b
RECURSIVE ArgMinFrom(_, _, _)
ArgMinFrom(ds, i, b) ==
  IF i > Len(ds) THEN b
  ELSE ArgMinFrom(ds, i + 1, IF ds[i] < ds[b] THEN i ELSE b)

\* np.argmin(ds); 0 stands for the ValueError it raises on an empty array
argmin(ds) == IF ds = <<>> THEN 0 ELSE ArgMinFrom(ds, 2, 1)

NoCompare ==
  [status |-> "none", face |-> NoEncoding, dists |-> <<>>, matches |-> <<>>,
   index |-> 0]

\* lines 45-56, from face j on: the for loop over face_encodings. status is
\* "found" (found_target, break), "none" (loop exhausted) or "error" (argmin
\* of an empty array, or an index outside studentIds); the other fields are
\* the values of the face compared last.
RECURSIVE CompareFrom(_, _, _, _, _, _)
CompareFrom(faces, j, known, ids, target, last) ==
  IF j > Len(faces) THEN last
  ELSE LET ms == compare_faces(known, faces[j])
           ds == face_distance(known, faces[j])
           mi == argmin(ds)
           cur == [status |-> "none", face |-> faces[j], dists |-> ds,
                   matches |-> ms, index |-> mi]
       IN IF mi = 0 THEN [cur EXCEPT !.status = "error"]
          ELSE IF ms[mi]
            THEN IF mi > Len(ids) THEN [cur EXCEPT !.status = "error"]
                 ELSE IF ids[mi] = target THEN [cur EXCEPT !.status = "found"]
                 ELSE CompareFrom(faces, j + 1, known, ids, target, cur)
          ELSE CompareFrom(faces, j + 1, known, ids, target, cur)

Compare(faces, known, ids, target) ==
  CompareFrom(faces, 1, known, ids, target, NoCompare)

InitSep ==
  /\ script = "separate_images"
  /\ pc = "load"
  /\ EncodeFile \in EncoderOutputs
  /\ refFolder = <<>> /\ imgList = <<>>
  /\ studentIds = <<>> /\ encodeListKnown = <<>>
  /\ Idle
  /\ GuiFresh

\* lines 9-26: the pickle is loaded, the target is set, the folder is listed
SepLoad ==
  /\ script = "separate_images" /\ pc = "load"
  /\ encodeListKnown' = EncodeFile.encodings
  /\ studentIds' = EncodeFile.labels
  /\ target_person_id' \in Labels
  /\ listing' \in Listings(ScanNames, MaxFiles)
  /\ pc' = "scan"
  /\ UNCHANGED <<script, encVars, EncodeFile, idx, loopVars, faceVars, copied,
                 guiVars>>

\* lines 26-65: one iteration of the loop over os.listdir(source_folder).
\* The values an iteration leaves in image, face_encodings, ... are never
\* read by a later iteration before it assigns them, so each iteration
\* starts from the unassigned values.
SepFile ==
  /\ script = "separate_images" /\ pc = "scan" /\ idx < Len(listing)
  /\ idx' = idx + 1
  /\ filename' = listing[idx + 1]
  /\ IF ~LowerEndsWithValid(listing[idx + 1])
       THEN /\ image' = None /\ face_encodings' = <<>>
            /\ face_encoding' = NoEncoding /\ face_distances' = <<>>
            /\ matches' = <<>> /\ match_index' = 0 /\ found_target' = FALSE
            /\ UNCHANGED <<pc, copied>>
       ELSE \E img \in Images :
            /\ image' = img
            /\ IF ReadStatus(img) # "ok"
                 THEN /\ face_encodings' = <<>>
                      /\ face_encoding' = NoEncoding /\ face_distances' = <<>>
                      /\ matches' = <<>> /\ match_index' = 0
                      /\ found_target' = FALSE
                      /\ pc' = IF ReadStatus(img) = "abort" THEN "error" ELSE pc
                      /\ UNCHANGED copied
                 ELSE \E r \in {Compare(img.faces, encodeListKnown, studentIds,
                                        target_person_id)} :
                         /\ face_encodings' = img.faces
                         /\ face_encoding' = r.face
                         /\ face_distances' = r.dists
                         /\ matches' = r.matches
                         /\ match_index' = r.index
                         /\ found_target' = (r.status = "found")
                         /\ pc' = IF r.status = "error" THEN "error" ELSE pc
                         /\ copied' = IF r.status = "found"
                                        THEN copied \cup {listing[idx + 1]}
                                        ELSE copied
  /\ UNCHANGED <<script, encVars, knownVars, EncodeFile, listing,
                 target_person_id, guiVars>>

\* the loop is exhausted and the script ends
SepDone ==
  /\ script = "separate_images" /\ pc = "scan" /\ idx = Len(listing)
  /\ pc' = "done"
  /\ UNCHANGED <<script, encVars, knownVars, EncodeFile, listing, idx,
                 loopVars, faceVars, sepVars, guiVars>>

NextSep == SepLoad \/ SepFile \/ SepDone

SpecSep == InitSep /\ [][NextSep]_vars

\* ------------------------------------------------------ the front-end
Folders == {"A"}
FaceFiles == {"face.jpg"}

\* what can be dropped on the window: a folder or a file, with or without
\* the braces Tk puts around a path
DropBodies == {"A", "x"}

\* os.path.join(source_folder, filename)
Path(dir, name) == [dir |-> dir, name |-> name]

\* os.path.basename(filepath)
basename(path) == path.name

\* a picker that stores whatever it returns, the empty answer included
PickedAlways(old, chosen) == chosen

\* if folder_selected: self.source_folder = folder_selected
\* if file_selected: self.face_image_path = file_selected
Picked(old, chosen) == IF chosen # "" THEN chosen ELSE old

\* drop_folder, lines 191-192: both braces are removed, or none
StripBraces(d) ==
  IF d.open /\ d.close THEN [d EXCEPT !.open = FALSE, !.close = FALSE] ELSE d

\* os.path.isdir(folder_path)
isdir(d) == ~d.open /\ ~d.close /\ d.body \in Folders

\* create_encoding_for_face: the first encoding, or the ValueError raised
create_encoding_for_face(exists, img) ==
  IF ~exists THEN [err |-> TRUE, enc |-> NoEncoding]
  ELSE IF ~img.ok THEN [err |-> TRUE, enc |-> NoEncoding]
  ELSE IF Len(img.faces) = 0 THEN [err |-> TRUE, enc |-> NoEncoding]
  ELSE [err |-> FALSE, enc |-> img.faces[1]]

\* a match list that keeps the matches of the run before
KeptMatchList(old) == old

\* self.matched_files = []
NewMatchList(old) == <<>>

\* update_progress: the value given to the progress bar, rounded down
update_progress(current, total) ==
  IF total <= 0 THEN 0 ELSE (current * 100) \div total

\* a loop over the faces without the break: one append per matching face
RECURSIVE MatchAppendsNoBreak(_, _, _)
MatchAppendsNoBreak(faces, j, probe) ==
  IF j > Len(faces) THEN 0
  ELSE (IF compare_faces(<<probe>>, faces[j])[1] THEN 1 ELSE 0)
         + MatchAppendsNoBreak(faces, j + 1, probe)

\* lines 77-86, from face j on: how often the loop over face_encodings
\* appends the file and calls matched_callback
RECURSIVE MatchAppends(_, _, _)
MatchAppends(faces, j, probe) ==
  IF j > Len(faces) THEN 0
  ELSE IF compare_faces(<<probe>>, faces[j])[1] THEN 1
  ELSE MatchAppends(faces, j + 1, probe)

Ev(e, i, total) == [ev |-> e, i |-> i, total |-> total]

Repeat(x, n) == [k \in 1..n |-> x]

\* an iteration that reports progress when it is through with the file
ScanEventsProgressLast(i, total, st, appends) ==
  <<Ev("imread", i, 0)>>
    \o (IF st = "ok" THEN <<Ev("faces", i, 0)>> ELSE <<>>)
    \o Repeat(Ev("matched", i, 0), appends)
    \o <<Ev("progress", i, total)>>

\* an iteration that reports no progress for a file it skips
ScanEventsSkipSilent(i, total, st, appends) ==
  (IF st = "ok" THEN <<Ev("progress", i, total)>> ELSE <<>>)
    \o <<Ev("imread", i, 0)>>
    \o (IF st = "ok" THEN <<Ev("faces", i, 0)>> ELSE <<>>)
    \o Repeat(Ev("matched", i, 0), appends)

\* lines 64-86: what one iteration of find_matched_images does, in order:
\* progress_callback, cv2.imread, the face detection, matched_callback
ScanEvents(i, total, st, appends) ==
  <<Ev("progress", i, total), Ev("imread", i, 0)>>
    \o (IF st = "ok" THEN <<Ev("faces", i, 0)>> ELSE <<>>)
    \o Repeat(Ev("matched", i, 0), appends)

\* zipf.write(filepath, arcname=os.path.basename(filepath)) for each file
ZipEntries(files) ==
  [k \in DOMAIN files |-> [arcname |-> basename(files[k]), src |-> files[k]]]

InitGui ==
  /\ script = "gui_app"
  /\ pc = "idle"
  /\ refFolder = <<>> /\ imgList = <<>>
  /\ studentIds = <<>> /\ encodeListKnown = <<>>
  /\ EncodeFile = NoFile
  /\ Idle
  /\ GuiFresh

scanVars == <<listing, all_files, idx, loopVars, probe_encoding,
              matched_filepaths, trace>>

select_input_folder ==
  /\ script = "gui_app" /\ pc = "idle"
  /\ \E folder_selected \in Folders \cup {""} :
       /\ source_folder' = Picked(source_folder, folder_selected)
       /\ event' = [NoEvent EXCEPT !.op = "select_input_folder",
                                   !.arg = folder_selected]
  /\ message' = ""
  /\ UNCHANGED <<script, pc, cliVars, scanVars, face_image_path,
                 matched_files, progress_value, archive, earlier_files>>

drop_folder ==
  /\ script = "gui_app" /\ pc = "idle"
  /\ \E body \in DropBodies, open \in BOOLEAN, close \in BOOLEAN :
       LET dropped_data == [open |-> open, body |-> body, close |-> close]
           folder_path == StripBraces(dropped_data)
       IN /\ event' = [NoEvent EXCEPT !.op = "drop_folder", !.arg = body,
                                      !.open = open, !.close = close]
          /\ IF isdir(folder_path)
               THEN source_folder' = folder_path.body /\ message' = ""
               ELSE UNCHANGED source_folder /\ message' = "not_a_folder"
  /\ UNCHANGED <<script, pc, cliVars, scanVars, face_image_path,
                 matched_files, progress_value, archive, earlier_files>>

select_face_image ==
  /\ script = "gui_app" /\ pc = "idle"
  /\ \E file_selected \in FaceFiles \cup {""}, shown \in BOOLEAN :
       /\ file_selected = "" => ~shown
       /\ face_image_path' = Picked(face_image_path, file_selected)
       /\ event' = [NoEvent EXCEPT !.op = "select_face_image",
                                   !.arg = file_selected, !.exists = shown]
       /\ message' = IF file_selected # "" /\ ~shown
                       THEN "preview_error" ELSE ""
  /\ UNCHANGED <<script, pc, cliVars, scanVars, source_folder,
                 matched_files, progress_value, archive, earlier_files>>

\* process_images, lines 246-283 up to the first iteration of the scan
process_images ==
  /\ script = "gui_app" /\ pc = "idle"
  /\ IF source_folder = "" \/ face_image_path = ""
       THEN /\ message' = IF source_folder = "" THEN "warn_folder"
                                                ELSE "warn_face"
            /\ event' = [NoEvent EXCEPT !.op = "process_images"]
            /\ UNCHANGED <<pc, scanVars, matched_files, progress_value,
                           earlier_files>>
       ELSE \E exists \in BOOLEAN, img \in RefImages :
            /\ ~exists => img = None
            /\ event' = [NoEvent EXCEPT !.op = "process_images",
                                        !.arg = face_image_path,
                                        !.exists = exists, !.img = img]
            /\ progress_value' = 0
            /\ LET r == create_encoding_for_face(exists, img)
               IN IF r.err
                    THEN /\ message' = "error_encoding"
                         /\ UNCHANGED <<pc, scanVars, matched_files,
                                        earlier_files>>
                    ELSE /\ message' = ""
                         /\ earlier_files' = matched_files
                         /\ matched_files' = NewMatchList(matched_files)
                         /\ probe_encoding' = r.enc
                         /\ matched_filepaths' = <<>>
                         /\ trace' = <<>>
                         /\ \E l \in Listings(ScanNames, MaxFiles) :
                              /\ listing' = l
                              /\ all_files' = SelectSeq(l, LowerEndsWithValid)
                         /\ idx' = 0
                         /\ pc' = "gscan"
                         /\ UNCHANGED loopVars
  /\ UNCHANGED <<script, cliVars, selVars, archive>>

\* find_matched_images, lines 64-86: one iteration of the loop
ScanFile ==
  /\ script = "gui_app" /\ pc = "gscan" /\ idx < Len(all_files)
  /\ idx' = idx + 1
  /\ filename' = all_files[idx + 1]
  /\ \E img \in Images :
     \E st \in {ReadStatus(img)} :
     \E appends \in {IF st = "ok"
                       THEN MatchAppends(img.faces, 1, probe_encoding) ELSE 0} :
       LET filepath == Path(source_folder, all_files[idx + 1])
       IN /\ image' = img
          /\ face_encodings' = IF st = "ok" THEN img.faces ELSE <<>>
          /\ progress_value' = update_progress(idx + 1, Len(all_files))
          /\ trace' = trace \o ScanEvents(idx + 1, Len(all_files), st, appends)
          /\ matched_filepaths' = matched_filepaths \o Repeat(filepath, appends)
          /\ matched_files' = matched_files \o Repeat(filepath, appends)
          /\ pc' = IF st = "abort" THEN "error" ELSE pc
  /\ UNCHANGED <<script, cliVars, selVars, listing, all_files, probe_encoding,
                 archive, message, event, earlier_files>>

\* find_matched_images, line 88: the loop is exhausted, the list is returned
ScanReturn ==
  /\ script = "gui_app" /\ pc = "gscan" /\ idx = Len(all_files)
  /\ pc' = "results"
  /\ UNCHANGED <<script, cliVars, guiVars, listing, idx, loopVars>>

\* process_images, lines 285-319: the results, the save dialog, the ZIP.
\* fail is the index of the file whose write raises (none when beyond the
\* list); the locals of the call end with it.
ProcFinish ==
  /\ script = "gui_app" /\ pc = "results"
  /\ IF Len(matched_files) = 0
       THEN message' = "no_matches" /\ UNCHANGED archive
       ELSE \E zip_path \in {"", "matched_images.zip"} :
            IF zip_path = ""
              THEN message' = "found" /\ UNCHANGED archive
              ELSE \E fail \in 1..(Len(matched_files) + 1) :
                   /\ archive' = [written |-> TRUE,
                                  entries |-> ZipEntries(
                                    SubSeq(matched_files, 1, fail - 1))]
                   /\ message' = IF fail > Len(matched_files)
                                   THEN "saved" ELSE "zip_error"
  /\ pc' = "idle"
  /\ listing' = <<>> /\ all_files' = <<>> /\ idx' = 0
  /\ filename' = NoName /\ image' = None /\ face_encodings' = <<>>
  /\ probe_encoding' = NoEncoding /\ matched_filepaths' = <<>>
  /\ trace' = <<>>
  /\ UNCHANGED <<script, cliVars, selVars, matched_files, progress_value,
                 event, earlier_files>>

NextGui ==
  \/ select_input_folder \/ drop_folder \/ select_face_image
  \/ process_images \/ ScanFile \/ ScanReturn \/ ProcFinish

SpecGui == InitGui /\ [][NextGui]_vars

\* ------------------------------------------------- the three scripts
Init == InitEnc \/ InitSep \/ InitGui

Next == NextEnc \/ NextSep \/ NextGui

Spec == Init /\ [][Next]_vars

\* ------------------------------------------------------ encoder: claims
\* the faces of the reference file that gave label i of the pickle, if the
\* pickle is index-aligned
RefFileFor(label, encoding) ==
  \E k \in DOMAIN refFolder :
    /\ refFolder[k].name.base = label
    /\ refFolder[k].img.ok
    /\ refFolder[k].img.faces # <<>>
    /\ refFolder[k].img.faces[1] = encoding

\* C1: the KnownSet the encoder writes has encodings and labels of equal
\* length and index-aligned: encodings[i] is the encoding computed from the
\* reference file whose base name is labels[i], also for folders that hold
\* valid-extension files that cannot be read.
C1_KnownSetAligned ==
  EncodeFile.written =>
    /\ Len(EncodeFile.encodings) = Len(EncodeFile.labels)
    /\ \A i \in DOMAIN EncodeFile.labels :
         /\ i \in DOMAIN EncodeFile.encodings
         /\ RefFileFor(EncodeFile.labels[i], EncodeFile.encodings[i])

\* ---------------------------------------------------- separator: claims
Scanning == script = "separate_images" /\ pc \in {"scan", "done", "error"}

\* C2: with an empty KnownSet no candidate face matches: the scan completes
\* without error and copies no file.
C2_EmptyKnownSetNoMatch ==
  (Scanning /\ encodeListKnown = <<>>) =>
    (pc # "error" /\ ~found_target /\ copied = {})

\* a face of this iteration has been compared against a non-empty KnownSet
Compared ==
  Scanning /\ encodeListKnown # <<>> /\ face_encoding # NoEncoding

EqualAt == {k \in DOMAIN encodeListKnown : encodeListKnown[k] = face_encoding}

Matched(label) ==
  /\ match_index \in DOMAIN matches
  /\ matches[match_index]
  /\ face_distances[match_index] = 0
  /\ match_index \in DOMAIN studentIds
  /\ studentIds[match_index] = label

\* C3 as stated: a probe equal to encodings[k] is matched to labels[k] at
\* distance 0, for every k, also when several equal encodings carry
\* different labels.
C3_ExactProbeMatchesLabelK ==
  Compared => \A k \in EqualAt : Matched(studentIds[k])

\* C3 as amended: a probe equal to encodings[k] is matched at distance 0 to
\* the label of the first index that holds an encoding equal to it.
C3_ExactProbeMatchesFirstEqual ==
  Compared =>
    \A k \in EqualAt : (\A m \in EqualAt : k <= m) => Matched(studentIds[k])

C3_Witness ==
  /\ Compared
  /\ Cardinality(EqualAt) = 2
  /\ studentIds[1] # studentIds[2]
  /\ match_index = 1
  /\ Matched(studentIds[1])

\* the nearest known encoding of probe p (first index of the least
\* distance) is within tolerance and carries the target's label
NearestIsTarget(p) ==
  \E i \in DOMAIN encodeListKnown :
    /\ \A m \in DOMAIN encodeListKnown :
         Dist2(encodeListKnown[m], p) >= Dist2(encodeListKnown[i], p)
    /\ \A m \in 1..(i - 1) :
         Dist2(encodeListKnown[m], p) > Dist2(encodeListKnown[i], p)
    /\ Dist2(encodeListKnown[i], p) <= tolerance * tolerance
    /\ i \in DOMAIN studentIds
    /\ studentIds[i] = target_person_id

ShouldCopy ==
  /\ LowerEndsWithValid(filename)
  /\ image.ok
  /\ \E j \in DOMAIN image.faces : NearestIsTarget(image.faces[j])

\* C4: the separator copies a candidate file iff it is readable and one of
\* its faces has its nearest known encoding within tolerance under the
\* target's label; no other file is copied and no copy is undone.
C4_CopiedIffTargetFace ==
  [][(script = "separate_images" /\ pc = "scan" /\ idx' = idx + 1) =>
       copied' = IF ShouldCopy' THEN copied \cup {filename'} ELSE copied]_vars

C4_Witness ==
  /\ script = "separate_images" /\ pc = "done" /\ idx = 2
  /\ copied = {filename}
  /\ Len(image.faces) = 2
  /\ ~NearestIsTarget(image.faces[1])
  /\ Dist2(encodeListKnown[match_index], face_encoding) = tolerance * tolerance

\* --------------------------------------------------------- scan: claims
InScan == script = "gui_app" /\ pc \in {"gscan", "results"}

ScanStep == script = "gui_app" /\ pc = "gscan" /\ idx' = idx + 1

IsProgress(e) == e.ev = "progress"

IsMatched(e) == e.ev = "matched"

\* the calls of progress_callback and of matched_callback so far, in order
ProgressCalls == SelectSeq(trace, IsProgress)

MatchedCalls == SelectSeq(trace, IsMatched)

\* a face of the current file is within tolerance of the probe
FileMatches ==
  /\ image.ok
  /\ \E j \in DOMAIN image.faces :
       Dist2(probe_encoding, image.faces[j]) <= tolerance * tolerance

\* C5: first-match-wins per file. Each iteration records the file once if
\* one of its faces is within tolerance of the probe and not at all
\* otherwise; no path is recorded twice; matched_callback is called once per
\* recorded file, in the order of the list; with no image file the list is
\* empty and the callback is never called.
C5_FirstMatchWins ==
  /\ [](InScan =>
          /\ Injective(matched_filepaths)
          /\ Len(MatchedCalls) = Len(matched_filepaths)
          /\ \A k \in DOMAIN matched_filepaths :
               matched_filepaths[k] =
                 Path(source_folder, all_files[MatchedCalls[k].i])
          /\ (all_files = <<>> =>
                matched_filepaths = <<>> /\ MatchedCalls = <<>>))
  /\ [][ScanStep =>
          matched_filepaths' =
            IF FileMatches'
              THEN Append(matched_filepaths, Path(source_folder, filename'))
              ELSE matched_filepaths]_vars

C5_Witness ==
  /\ script = "gui_app" /\ pc = "results" /\ Len(all_files) = 2
  /\ Len(image.faces) = 2
  /\ \A j \in DOMAIN image.faces :
       Dist2(probe_encoding, image.faces[j]) <= tolerance * tolerance
  /\ matched_filepaths = <<Path(source_folder, all_files[2])>>
  /\ \E a \in DOMAIN trace : trace[a].ev = "faces" /\ trace[a].i = 1

\* every file taken so far has had its progress call
ProgressForEveryFile ==
  \A i \in 1..idx : \E a \in DOMAIN trace : IsProgress(trace[a]) /\ trace[a].i = i

\* C6 as stated: the progress call (i, total) comes after the load, the face
\* detection and any match callback of file i, and before any event of
\* file i + 1.
C6_ProgressAfterFile ==
  InScan =>
    /\ ProgressForEveryFile
    /\ \A a, b \in DOMAIN trace :
         (IsProgress(trace[a]) /\ ~IsProgress(trace[b])) =>
           /\ trace[b].i = trace[a].i => b < a
           /\ trace[b].i = trace[a].i + 1 => a < b

\* C6 as amended: the progress call (i, total) comes before the load, the
\* face detection and any match callback of file i, and after every event
\* of file i - 1.
C6_ProgressBeforeFile ==
  InScan =>
    /\ ProgressForEveryFile
    /\ \A a, b \in DOMAIN trace :
         (IsProgress(trace[a]) /\ ~IsProgress(trace[b])) =>
           /\ trace[b].i = trace[a].i => a < b
           /\ trace[b].i = trace[a].i - 1 => b < a

C6_Witness ==
  /\ script = "gui_app" /\ pc = "results" /\ Len(all_files) = 2
  /\ \E a, b \in DOMAIN trace :
       /\ IsMatched(trace[a]) /\ trace[a].i = 1
       /\ IsProgress(trace[b]) /\ trace[b].i = 2 /\ a < b
  /\ \E c \in DOMAIN trace : trace[c].ev = "faces" /\ trace[c].i = 2

\* C7: progress_callback is called exactly once for every listed file with a
\* valid extension, unreadable ones included, with currentIndex 1, 2, ...,
\* total in this order and the same total in every call; the last call of a
\* scan has currentIndex = total, which fills the progress bar.
C7_ProgressOncePerFile ==
  InScan =>
    /\ \A k \in DOMAIN listing :
         LowerEndsWithValid(listing[k]) <=>
           \E m \in DOMAIN all_files : all_files[m] = listing[k]
    /\ Injective(all_files)
    /\ Len(ProgressCalls) = idx
    /\ \A k \in DOMAIN ProgressCalls :
         ProgressCalls[k].i = k /\ ProgressCalls[k].total = Len(all_files)
    /\ pc = "results" =>
         /\ idx = Len(all_files)
         /\ all_files # <<>> => progress_value = 100

C7_Witness ==
  /\ script = "gui_app" /\ pc = "results" /\ Len(all_files) = 2
  /\ ~image.ok
  /\ \E a \in DOMAIN trace : trace[a].ev = "faces" /\ trace[a].i = 1
  /\ Len(ProgressCalls) = 2 /\ ProgressCalls[2].i = 2

\* C8: in both scans an unreadable candidate file is skipped and the scan
\* goes on: the iteration records and copies nothing, undoes nothing and
\* leaves the scan where an iteration without that file would be.
C8_UnreadableSkipped ==
  [][/\ (/\ script = "separate_images" /\ pc = "scan" /\ idx' = idx + 1
         /\ LowerEndsWithValid(filename') /\ ~image'.ok)
          => (pc' = "scan" /\ copied' = copied /\ ~found_target')
     /\ (ScanStep /\ ~image'.ok)
          => /\ pc' = "gscan"
             /\ matched_filepaths' = matched_filepaths
             /\ matched_files' = matched_files
             /\ MatchedCalls' = MatchedCalls]_vars

C8_Witness ==
  /\ script = "gui_app" /\ pc = "results" /\ Len(all_files) = 2
  /\ \E a \in DOMAIN trace : trace[a].ev = "imread" /\ trace[a].i = 1
  /\ ~\E a \in DOMAIN trace : trace[a].ev = "faces" /\ trace[a].i = 1
  /\ matched_filepaths = <<Path(source_folder, all_files[2])>>

\* ---------------------------------------------------- front-end: claims
Range(f) == {f[k] : k \in DOMAIN f}

\* archive a holds exactly one entry per file of the list, under the file's
\* base name, and no other entry
ArchiveOf(a, files) ==
  /\ a.written
  /\ \A p \in Range(files) :
       Cardinality({e \in DOMAIN a.entries :
                      a.entries[e].src = p /\ a.entries[e].arcname = p.name}) = 1
  /\ \A e \in DOMAIN a.entries : a.entries[e].src \in Range(files)
  /\ Len(a.entries) = Cardinality(Range(files))

CannotScan ==
  \/ source_folder = "" \/ face_image_path = ""
  \/ ~event'.exists \/ ~event'.img.ok \/ event'.img.faces = <<>>

\* C10: a scan starts only when a folder and a face image are selected and
\* the reference encoding was created; otherwise process_images returns
\* with a warning or an error, without scanning, without the save dialog
\* and with self.matched_files unchanged; a cancelled picker or a dropped
\* non-folder leaves the selection as it was.
C10_ScanOnlyWhenReady ==
  [][(script = "gui_app" /\ pc = "idle") =>
       /\ pc' = "gscan" =>
            /\ ~CannotScan
            /\ event'.op = "process_images"
            /\ probe_encoding' = event'.img.faces[1]
       /\ (event'.op = "process_images" /\ CannotScan) =>
            /\ pc' = "idle"
            /\ message' \in {"warn_folder", "warn_face", "error_encoding"}
            /\ matched_files' = matched_files
            /\ archive' = archive
            /\ trace' = trace
       /\ (event'.op \in {"select_input_folder", "select_face_image"}
             /\ event'.arg = "") =>
            UNCHANGED selVars
       /\ (event'.op = "drop_folder"
             /\ (event'.arg \notin Folders \/ event'.open # event'.close)) =>
            UNCHANGED selVars]_vars

C10_Witness ==
  /\ script = "gui_app" /\ pc = "idle"
  /\ event.op = "process_images" /\ message = "error_encoding"
  /\ matched_files # <<>> /\ archive.written

====
